---- MODULE Spec2Model ----
(***************************************************************************)
(* State-machine model of agentc-tap-helper (helpers/tap-helper/src/main.rs) *)
(* One invocation of the helper is a process that runs main() one system     *)
(* call at a time against the kernel's interface table.  Strings are         *)
(* sequences of one-character strings.                                       *)
(***************************************************************************)
EXTENDS Integers, Sequences, FiniteSets, TLC

VARIABLES kern, proc, runs

vars == <<kern, proc, runs>>

\* ------------------------------------------------------------------ bounds

\* Number of invocations of the helper that one behaviour runs.
MaxRuns == 2

\* ------------------------------------------------------- program constants

IFNAMSIZ == 16
IFF_UP == 1
IFF_TAP == 2
IFF_NO_PI == 4096
IFF_VNET_HDR == 16384
\* CAP_NET_ADMIN: bit 12 of CapEff
CAP_NET_ADMIN == 12

\* --------------------------------------------------------------- characters

Lower == {"a","b","c","d","e","f","g","h","i","j","k","l","m",
          "n","o","p","q","r","s","t","u","v","w","x","y","z"}
Upper == {"A","B","C","D","E","F","G","H","I","J","K","L","M",
          "N","O","P","Q","R","S","T","U","V","W","X","Y","Z"}
Digit == {"0","1","2","3","4","5","6","7","8","9"}

is_ascii_alphabetic(c) == c \in Lower \cup Upper
is_ascii_alphanumeric(c) == c \in Lower \cup Upper \cup Digit

DigitVal(c) ==
    CASE c = "0" -> 0 [] c = "1" -> 1 [] c = "2" -> 2 [] c = "3" -> 3
      [] c = "4" -> 4 [] c = "5" -> 5 [] c = "6" -> 6 [] c = "7" -> 7
      [] c = "8" -> 8 [] c = "9" -> 9

\* --------------------------------------------------------- name validation

\* Mutant: the length test is "greater than", not "at least".
validate_interface_name_gt(name) ==
    IF Len(name) = 0 THEN "Interface name cannot be empty"
    ELSE IF Len(name) > IFNAMSIZ THEN "Interface name too long"
    ELSE IF ~is_ascii_alphabetic(name[1]) THEN "Interface name must start with a letter"
    ELSE IF \E i \in 1..Len(name) :
                ~is_ascii_alphanumeric(name[i]) /\ name[i] # "-" /\ name[i] # "_"
         THEN "Invalid character in interface name"
    ELSE "ok"

\* validate_interface_name: "ok" or the error it returns.
validate_interface_name(name) ==
    IF Len(name) = 0 THEN "Interface name cannot be empty"
    ELSE IF Len(name) >= IFNAMSIZ THEN "Interface name too long"
    ELSE IF ~is_ascii_alphabetic(name[1]) THEN "Interface name must start with a letter"
    ELSE IF \E i \in 1..Len(name) :
                ~is_ascii_alphanumeric(name[i]) /\ name[i] # "-" /\ name[i] # "_"
         THEN "Invalid character in interface name"
    ELSE "ok"

\* IfReq::new: the request can be built iff the name fits the name field.
IfReqNew(name) == Len(name) < IFNAMSIZ

\* ------------------------------------------------------------ CIDR parsing

RECURSIVE SplitFrom(_, _, _, _)
SplitFrom(s, sep, i, cur) ==
    IF i > Len(s) THEN <<cur>>
    ELSE IF s[i] = sep THEN <<cur>> \o SplitFrom(s, sep, i + 1, <<>>)
    ELSE SplitFrom(s, sep, i + 1, Append(cur, s[i]))

\* str::split(sep).collect()
Split(s, sep) == SplitFrom(s, sep, 1, <<>>)

\* Accumulates decimal digits; -1 on a non-digit or once the value exceeds maxv.
RECURSIVE ParseDigits(_, _, _, _)
ParseDigits(s, i, acc, maxv) ==
    IF i > Len(s) THEN acc
    ELSE IF s[i] \notin Digit THEN -1
    ELSE IF acc * 10 + DigitVal(s[i]) > maxv THEN -1
    ELSE ParseDigits(s, i + 1, acc * 10 + DigitVal(s[i]), maxv)

\* <unsigned>::from_str: an optional leading "+", then at least one digit;
\* -1 stands for Err.
ParseUnsigned(s, maxv) ==
    LET body == IF Len(s) > 0 /\ s[1] = "+" THEN Tail(s) ELSE s
    IN  IF Len(body) = 0 THEN -1 ELSE ParseDigits(body, 1, 0, maxv)

U8Max == 255
\* Prefix lengths of the model's inputs have at most nine digits, so the
\* u32 range check is made against the largest nine-digit number.
U32ModelMax == 999999999

\* The parsing part of set_ip_address: "ok" with octets and prefix, or the
\* validation error returned before any socket is opened.
ParseCidr(ip) ==
    LET parts == Split(ip, "/")
    IN  IF Len(parts) # 2
        THEN [res |-> "IP must be in CIDR format", octets |-> <<>>, prefix |-> 0]
        ELSE
        LET prefix_len == ParseUnsigned(parts[2], U32ModelMax)
            strs == Split(parts[1], ".")
            octets == [i \in 1..Len(strs) |-> ParseUnsigned(strs[i], U8Max)]
        IN  IF prefix_len = -1
            THEN [res |-> "Invalid prefix length", octets |-> <<>>, prefix |-> 0]
            ELSE IF \E i \in 1..Len(strs) : octets[i] = -1
            THEN [res |-> "Invalid IP octet", octets |-> <<>>, prefix |-> 0]
            ELSE IF Len(octets) # 4
            THEN [res |-> "Invalid IP address format", octets |-> <<>>, prefix |-> 0]
            ELSE [res |-> "ok", octets |-> octets, prefix |-> prefix_len]

\* ------------------------------------------------------------ netmask (u32)

\* A u32 is a sequence of 32 bits, most significant first.
AllOnes == [i \in 1..32 |-> 1]
AllZeros == [i \in 1..32 |-> 0]

\* u32 << s for 0 <= s < 32
Shl(b, s) == [i \in 1..32 |-> IF i + s <= 32 THEN b[i + s] ELSE 0]

\* Mutant: the bytes are handed over least significant first.
ToLeBytes(b) ==
    [k \in 1..4 |->
        LET o == 8 * (4 - k)
        IN  b[o+1]*128 + b[o+2]*64 + b[o+3]*32 + b[o+4]*16
          + b[o+5]*8 + b[o+6]*4 + b[o+7]*2 + b[o+8]]

\* to_be(): the four bytes handed to the kernel, most significant first.
ToBeBytes(b) ==
    [k \in 1..4 |->
        LET o == 8 * (k - 1)
        IN  b[o+1]*128 + b[o+2]*64 + b[o+3]*32 + b[o+4]*16
          + b[o+5]*8 + b[o+6]*4 + b[o+7]*2 + b[o+8]]

\* The outcomes of "if prefix_len == 0 { 0 } else { !0u32 << (32 - prefix_len) }"
\* followed by to_be().  For prefix_len > 32 the subtraction underflows: a
\* build with overflow checks panics, a build without wraps the difference
\* and masks the shift amount to five bits.
NetmaskOutcomes(prefix_len) ==
    IF prefix_len = 0 THEN {[panic |-> FALSE, bytes |-> ToBeBytes(AllZeros)]}
    ELSE IF prefix_len <= 32
    THEN {[panic |-> FALSE, bytes |-> ToBeBytes(Shl(AllOnes, 32 - prefix_len))]}
    ELSE {[panic |-> TRUE, bytes |-> <<>>],
          [panic |-> FALSE, bytes |-> ToBeBytes(Shl(AllOnes, (32 - prefix_len) % 32))]}

\* ------------------------------------------------------------------ inputs

TAP0 == <<"t","a","p","0">>
BR0 == <<"b","r","0">>
\* Names that validation rejects: empty, leading digit, bad character, 16 bytes.
BadNames == { <<>>, <<"9","p">>, <<"t","/","x">>,
              <<"a","a","a","a","a","a","a","a","a","a","a","a","a","a","a","a">> }
Names == {TAP0, BR0} \cup BadNames
\* The --bridge arguments tried
BridgeArgs == {BR0, TAP0, <<"t","/","x">>}
ValidNames == {n \in Names : validate_interface_name(n) = "ok"}

IP_A == <<"1","0",".","0",".","0",".","1","/","2","4">>
IP_B == <<"1","9","2",".","1","6","8",".","1",".","1","/","3","2">>
IP_NoSlash == <<"1","0",".","0",".","0",".","1">>
IP_ThreeOctets == <<"1","0",".","0",".","1","/","2","4">>
IP_BadPrefix == <<"1","0",".","0",".","0",".","1","/","x">>
IP_Prefix33 == <<"1","0",".","0",".","0",".","1","/","3","3">>
Ips == {IP_A, IP_B, IP_NoSlash, IP_ThreeOctets, IP_BadPrefix, IP_Prefix33}

\* --owner-uid / --owner-gid: absent (-1) or given
OptIds == {-1, 0}
\* getuid() / getgid() of the caller
CallerId == 1000
Formats == {"json", "text"}
\* /proc/self/status and the effective uid, as check_capabilities sees them:
\* CapEff with bit 12 set, CapEff with only bit 13 set, or no readable CapEff
\* (-1) for root and for another user.
Envs == { [capEff |-> 4096, root |-> FALSE], [capEff |-> 8192, root |-> FALSE],
          [capEff |-> -1, root |-> TRUE], [capEff |-> -1, root |-> FALSE] }

Procs == {1, 2}

\* ---------------------------------------------------------------- the kernel

\* An entry of the kernel's interface table.  idx is the interface index,
\* tflags the TUNSETIFF flags of a tap, flags the administrative flags, master
\* the bridge a port is attached to (<<>>: none), addr the address the
\* interface's label resolves to (<<>>: none), others the further addresses
\* configured on the interface.
Absent == [kind |-> "none", idx |-> 0, tflags |-> 0, persist |-> FALSE,
           owner |-> -1, group |-> -1, flags |-> 0, master |-> <<>>,
           addr |-> <<>>, mask |-> <<>>, others |-> {}]

\* IFF_BROADCAST | IFF_MULTICAST, the flags of a new Ethernet-like device
NewDevFlags == 4098

\* interface_exists: /sys/class/net/<name> is there
interface_exists(k, name) == k.ifs[name].kind # "none"

\* get_interface_index: the content of /sys/class/net/<name>/ifindex, 0 for Err
get_interface_index(k, name) == k.ifs[name].idx

NameOfIdx(k, i) == {n \in ValidNames : i # 0 /\ k.ifs[n].idx = i}

\* The tun descriptors of running processes that are attached to device i.
Holders(pr, i) == {q \in Procs : pr[q].pc \notin {"off", "idle", "done"}
                                 /\ pr[q].tun = "open" /\ pr[q].tunAt = i}

\* The device leaves the table; its ports, if it is a bridge, are released.
KRemove(k, n) ==
    [k EXCEPT !.ifs = [m \in ValidNames |->
        IF m = n THEN Absent
        ELSE IF k.ifs[m].master = n THEN [k.ifs[m] EXCEPT !.master = <<>>]
        ELSE k.ifs[m]]]

\* TUNSETIFF on a name that is free: a new tap, not persistent, no owner.
KTapCreate(k, n, fl) ==
    [k EXCEPT !.ifs[n] = [Absent EXCEPT !.kind = "tap", !.idx = k.nextIdx,
                                        !.tflags = fl, !.flags = NewDevFlags],
              !.nextIdx = @ + 1]

\* TUNSETIFF on an existing tap that no descriptor holds: the descriptor
\* attaches and the feature flags are those of the request.
KTapAttach(k, n, fl) == [k EXCEPT !.ifs[n].tflags = fl]

\* What TUNSETIFF can answer: "new", "attach", or an errno.  EPERM stands for
\* every refusal that does not follow from the interface table.
TunSetIffOutcomes(k, pr, n) ==
    IF k.ifs[n].kind = "none" THEN {"new", "EPERM"}
    ELSE IF k.ifs[n].kind # "tap" THEN {"EINVAL"}
    ELSE IF Holders(pr, k.ifs[n].idx) # {} THEN {"EBUSY"}
    ELSE {"attach", "EPERM"}

\* close() of a tun descriptor attached to device i: a tap that is not
\* persistent goes away with its last descriptor.
KTunClose(k, pr, p, i) ==
    LET ns == NameOfIdx(k, i)
    IN  IF ns = {} THEN k
        ELSE LET n == CHOOSE x \in ns : TRUE
             IN  IF ~k.ifs[n].persist /\ Holders(pr, i) \subseteq {p}
                 THEN KRemove(k, n) ELSE k

\* SIOCBRADDIF(bridge, index)
BrAddIfOutcomes(k, br, i) ==
    IF k.ifs[br].kind = "none" THEN {"ENODEV"}
    ELSE IF k.ifs[br].kind # "bridge" THEN {"EOPNOTSUPP"}
    ELSE IF NameOfIdx(k, i) = {} THEN {"EINVAL"}
    ELSE IF \E n \in NameOfIdx(k, i) : n = br THEN {"ELOOP"}
    ELSE IF \E n \in NameOfIdx(k, i) : k.ifs[n].master # <<>> THEN {"EBUSY"}
    ELSE {"ok", "EPERM"}

KBrAddIf(k, br, i) ==
    LET n == CHOOSE x \in NameOfIdx(k, i) : TRUE
    IN  [k EXCEPT !.ifs[n].master = br]

\* SIOCBRADDBR(name)
BrAddBrOutcomes(k, n) ==
    IF k.ifs[n].kind # "none" THEN {"EEXIST"} ELSE {"ok", "EPERM"}

KBrAddBr(k, n) ==
    [k EXCEPT !.ifs[n] = [Absent EXCEPT !.kind = "bridge", !.idx = k.nextIdx,
                                        !.flags = NewDevFlags],
              !.nextIdx = @ + 1]

\* SIOCGIFFLAGS / SIOCSIFFLAGS
IfFlagsOutcomes(k, n) ==
    IF k.ifs[n].kind = "none" THEN {"ENODEV"} ELSE {"ok", "EPERM"}

\* The netmask the kernel gives an address set by SIOCSIFADDR: that of its class.
ClassMask(a) ==
    IF a[1] = 0 THEN <<0, 0, 0, 0>>
    ELSE IF a[1] < 128 THEN <<255, 0, 0, 0>>
    ELSE IF a[1] < 192 THEN <<255, 255, 0, 0>>
    ELSE IF a[1] < 224 THEN <<255, 255, 255, 0>>
    ELSE <<255, 255, 255, 255>>

\* SIOCSIFADDR(name, a): nothing to do when the interface's address is a
\* already; EEXIST when a is one of its further addresses.
IfAddrOutcomes(k, n, a) ==
    IF k.ifs[n].kind = "none" THEN {"ENODEV"}
    ELSE IF a[1] >= 224 /\ a[1] < 240 THEN {"EINVAL"}
    ELSE IF k.ifs[n].addr = a THEN {"ok", "EPERM"}
    ELSE IF a \in k.ifs[n].others THEN {"EEXIST", "EPERM"}
    ELSE {"ok", "EPERM"}

\* The interface table after SIOCSIFADDR answered res.
KIfAddr(k, n, a, res) ==
    IF res \notin {"ok", "EEXIST"} \/ k.ifs[n].addr = a THEN k
    ELSE [k EXCEPT !.ifs[n].addr = a, !.ifs[n].mask = ClassMask(a),
                   !.ifs[n].others = @ \ {a}]

\* SIOCSIFNETMASK(name, m)
IfNetmaskOutcomes(k, n) ==
    IF k.ifs[n].kind = "none" THEN {"ENODEV"}
    ELSE IF k.ifs[n].addr = <<>> THEN {"EADDRNOTAVAIL"}
    ELSE {"ok", "EPERM"}

\* "ip link delete <name>": "ok", a non-zero exit status ("status"), or the
\* command could not be executed ("exec").
IpLinkDeleteOutcomes(k, n) ==
    IF k.ifs[n].kind = "none" THEN {"status", "exec"} ELSE {"ok", "status", "exec"}

\* ------------------------------------------------------ an invocation's state

OK == <<"ok", "">>

\* A process is one invocation of the helper.  log is the history of its
\* system calls (with calls and returns of the helper's functions), tun and
\* sock the states of its two descriptors, tunAt the index of the device the
\* tun descriptor is attached to, k0 the interface table when it started.
\* retOpen, faulted and prevExit are history: the functions that returned
\* with a descriptor open, whether the environment refused a call, and the
\* exit status of the invocation that this one repeats (-1: none).  build is
\* what is known of how the binary was built: "checked" (arithmetic overflow
\* panics) or "wrapping", "unknown" until an overflow shows it.
IdleProc ==
    [pc |-> "idle", cmd |-> "none", name |-> <<>>, bridge |-> <<>>, ip |-> <<>>,
     uid |-> -1, gid |-> -1, format |-> "json",
     env |-> [capEff |-> 4096, root |-> FALSE],
     tun |-> "none", tunAt |-> 0, sock |-> "none", reg |-> 0,
     octets |-> <<>>, prefix |-> 0, err |-> OK, origErr |-> OK,
     exit |-> -1, out |-> [chan |-> "", kind |-> "", prefix |-> "", msg |-> OK],
     log |-> <<>>, retOpen |-> {}, faulted |-> FALSE,
     k0 |-> [ifs |-> [n \in ValidNames |-> Absent], nextIdx |-> 0],
     prevExit |-> -1, build |-> "unknown"]

OffProc == [IdleProc EXCEPT !.pc = "off"]

Sys(c, a, r) == [c |-> c, a |-> a, r |-> r]
Logged(rec, es) == [rec EXCEPT !.log = @ \o es]
Called(rec, fn) == Logged(rec, <<Sys("call", <<>>, fn)>>)

\* A refusal that does not follow from the interface table.
IsFault(res) == res \in {"EPERM", "exec", "status"}
Noted(rec, res) == [rec EXCEPT !.faulted = @ \/ IsFault(res)]

\* A function of the helper returns res.
Returned(rec, fn, res) ==
    LET how == IF res = OK THEN "ret_ok" ELSE "ret_err"
    IN  [rec EXCEPT !.log = Append(@, Sys(how, res, fn)),
                    !.retOpen = @ \cup (IF rec.tun = "open" \/ rec.sock = "open"
                                        THEN {<<fn, how>>} ELSE {})]

\* exit(code) after printing
Finish(rec, code, chan, kind, prefix, msg) ==
    [rec EXCEPT !.pc = "done", !.exit = code,
                !.out = [chan |-> chan, kind |-> kind, prefix |-> prefix, msg |-> msg]]

\* print_error: a JSON error object on stdout, or "Error: <msg>" on stderr
print_error(rec, msg) ==
    IF rec.format = "json" THEN Finish(rec, 1, "stdout", "error", "", msg)
    ELSE Finish(rec, 1, "stderr", "error", "Error: ", msg)

\* check_capabilities: bit 12 of CapEff, or root when CapEff cannot be read
RECURSIVE Pow2(_)
Pow2(n) == IF n = 0 THEN 1 ELSE 2 * Pow2(n - 1)

\* Mutant: the bit tested is not CAP_NET_ADMIN's.
check_capabilities_wrong_bit(env) ==
    IF env.capEff >= 0 THEN (env.capEff \div Pow2(CAP_NET_ADMIN + 1)) % 2 = 1
    ELSE env.root

check_capabilities(env) ==
    IF env.capEff >= 0 THEN (env.capEff \div Pow2(CAP_NET_ADMIN)) % 2 = 1
    ELSE env.root

\* Mutant: IFF_UP is added, not ORed in.
OrUpAdded(flags) == flags + IFF_UP

\* Mutant: the flags written are IFF_UP alone.
OrUpOnly(flags) == IFF_UP

\* ifr_flags |= IFF_UP
OrUp(flags) == IF (flags \div IFF_UP) % 2 = 1 THEN flags ELSE flags + IFF_UP

\* ---------------------------------------------------------------- main's arms

\* Mutant: a failed rollback reports its own error.
RollbackReportLast(origErr, delRes) == IF delRes # OK THEN delRes ELSE origErr

\* "let _ = delete_interface(&name); print_error(&e, &format)": the error
\* printed after the rollback.
RollbackReport(origErr, delRes) == origErr

\* Mutant: the rollback is forgotten, the error is printed at once.
StartRollbackSkipped(rec, e) == print_error(rec, e)

StartRollback(rec, e) ==
    [Called(rec, "delete_interface") EXCEPT !.pc = "di_stat", !.origErr = e]

AfterCreateTap(rec0, res) ==
    LET rec == Returned(rec0, "create_tap", res)
    IN  IF res # OK THEN print_error(rec, res)
        ELSE [rec EXCEPT !.pc = "main_close"]

AfterAddToBridge(rec0, res) ==
    LET rec == Returned(rec0, "add_to_bridge", res)
    IN  IF res # OK THEN StartRollback(rec, res)
        ELSE [Called(rec, "bring_up") EXCEPT !.pc = "bu_socket"]

\* Mutant: the create arm does not look at bring_up's result.
AfterBringUpUnchecked(rec0, res) ==
    LET rec == Returned(rec0, "bring_up", res)
    IN  IF rec.cmd = "create"
        THEN Finish(rec, 0, "stdout", "success", "", <<"Created TAP device", "">>)
        ELSE IF res # OK
             THEN Finish(rec, 1, "stderr", "error", "Error bringing up bridge: ", res)
             ELSE Finish(rec, 0, "stdout", "success", "", <<"Bridge configured", "">>)

AfterBringUp(rec0, res) ==
    LET rec == Returned(rec0, "bring_up", res)
    IN  IF rec.cmd = "create"
        THEN IF res # OK THEN StartRollback(rec, res)
             ELSE Finish(rec, 0, "stdout", "success", "", <<"Created TAP device", "">>)
        ELSE IF res # OK
             THEN Finish(rec, 1, "stderr", "error", "Error bringing up bridge: ", res)
             ELSE Finish(rec, 0, "stdout", "success", "", <<"Bridge configured", "">>)

AfterDelete(rec0, res) ==
    LET rec == Returned(rec0, "delete_interface", res)
    IN  IF rec.cmd = "delete"
        THEN IF res # OK THEN Finish(rec, 1, "stderr", "error", "Error: ", res)
             ELSE Finish(rec, 0, "stdout", "success", "", <<"Deleted TAP device", "">>)
        ELSE print_error(rec, RollbackReport(rec.origErr, res))

AfterCreateBridge(rec0, res) ==
    LET rec == Returned(rec0, "create_bridge", res)
    IN  IF res # OK
        THEN Finish(rec, 1, "stderr", "error", "Error creating bridge: ", res)
        ELSE [Called(rec, "set_ip_address") EXCEPT !.pc = "ip_begin"]

\* Mutant: setup-bridge goes on to bring_up whatever set_ip_address returned.
AfterSetIpUnchecked(rec0, res) ==
    [Called(Returned(rec0, "set_ip_address", res), "bring_up") EXCEPT !.pc = "bu_socket"]

AfterSetIp(rec0, res) ==
    LET rec == Returned(rec0, "set_ip_address", res)
    IN  IF res # OK
        THEN Finish(rec, 1, "stderr", "error", "Error setting IP: ", res)
        ELSE [Called(rec, "bring_up") EXCEPT !.pc = "bu_socket"]

\* The arm of main that receives the result of function fn.
After(fn, rec, res) ==
    CASE fn = "create_tap" -> AfterCreateTap(rec, res)
      [] fn = "add_to_bridge" -> AfterAddToBridge(rec, res)
      [] fn = "bring_up" -> AfterBringUp(rec, res)
      [] fn = "delete_interface" -> AfterDelete(rec, res)
      [] fn = "create_bridge" -> AfterCreateBridge(rec, res)
      [] fn = "set_ip_address" -> AfterSetIp(rec, res)

Set(p, rec) == proc' = [proc EXCEPT ![p] = rec]

\* "let sock_fd = create_control_socket()?" at the start of function fn
Socket(p, at, next, fn) ==
    LET rec == proc[p]
    IN  /\ rec.pc = at
        /\ UNCHANGED <<kern, runs>>
        /\ \E res \in {"ok", "EPERM"} :
             LET r1 == Noted(Logged(rec, <<Sys("socket", <<>>, res)>>), res)
             IN  IF res = "ok" THEN Set(p, [r1 EXCEPT !.sock = "open", !.pc = next])
                 ELSE Set(p, After(fn, r1, <<"Failed to create socket", res>>))

\* ------------------------------------------------------------------- main()

\* Cli::parse(): the command line of a new invocation.
Fresh(cmd, name, bridge, ip, uid, gid, format, env) ==
    [IdleProc EXCEPT !.pc = "validate", !.cmd = cmd, !.name = name,
                     !.bridge = bridge, !.ip = ip, !.uid = uid, !.gid = gid,
                     !.format = format, !.env = env, !.k0 = kern]

\* The first invocation: any command line.
Start(p) ==
    /\ proc[p].pc = "idle"
    /\ runs < MaxRuns
    /\ runs' = runs + 1
    /\ UNCHANGED kern
    /\ \E env \in Envs :
        \/ \E name \in Names, bridge \in BridgeArgs, uid \in OptIds, gid \in OptIds,
              format \in Formats :
              Set(p, Fresh("create", name, bridge, <<>>, uid, gid, format, env))
        \/ \E name \in Names :
              Set(p, Fresh("delete", name, <<>>, <<>>, -1, -1, "text", env))
        \/ Set(p, Fresh("check-caps", <<>>, <<>>, <<>>, -1, -1, "text", env))
        \/ \E name \in Names, ip \in Ips :
              Set(p, Fresh("setup-bridge", name, <<>>, ip, -1, -1, "text", env))

\* The caller runs the same command line again after the invocation ended.
Rerun(p) ==
    LET old == proc[p]
    IN  /\ old.pc = "done"
        /\ runs < MaxRuns
        /\ runs' = runs + 1
        /\ UNCHANGED kern
        /\ \E env \in Envs :
             Set(p, [Fresh(old.cmd, old.name, old.bridge, old.ip, old.uid, old.gid,
                           old.format, env)
                       EXCEPT !.prevExit = old.exit, !.build = old.build])

\* validate_interface_name on the name (and, for create, on the bridge)
Validate(p) ==
    LET rec == proc[p]
        v1 == validate_interface_name(rec.name)
        v2 == validate_interface_name(rec.bridge)
    IN  /\ rec.pc = "validate"
        /\ UNCHANGED <<kern, runs>>
        /\ IF rec.cmd = "check-caps" THEN Set(p, [rec EXCEPT !.pc = "caps"])
           ELSE IF v1 # "ok" THEN Set(p, print_error(rec, <<v1, "">>))
           ELSE IF rec.cmd = "create" /\ v2 # "ok" THEN Set(p, print_error(rec, <<v2, "">>))
           ELSE Set(p, [rec EXCEPT !.pc = "caps"])

CheckCaps(p) ==
    LET rec == Logged(proc[p], <<Sys("check_capabilities", <<>>, "")>>)
        has == check_capabilities(rec.env)
    IN  /\ rec.pc = "caps"
        /\ UNCHANGED <<kern, runs>>
        /\ IF rec.cmd = "check-caps"
           THEN IF has THEN Set(p, Finish(rec, 0, "stdout", "success", "", <<"CAP_NET_ADMIN: yes", "">>))
                ELSE Set(p, Finish(rec, 1, "stdout", "error", "", <<"CAP_NET_ADMIN: no", "">>))
           ELSE IF ~has
           THEN Set(p, print_error(rec, <<"Missing CAP_NET_ADMIN capability", "">>))
           ELSE Set(p, [rec EXCEPT !.pc = "exists"])

\* Mutant: the create arm does not test whether the name is taken.
CreateArmUnchecked(rec, ex) == [Called(rec, "create_tap") EXCEPT !.pc = "ct_open"]

\* Mutant: a taken name is handled like a failure after creation.
CreateArmRollsBack(rec, ex) ==
    IF ex THEN StartRollback(rec, <<"TAP device already exists", "">>)
    ELSE [Called(rec, "create_tap") EXCEPT !.pc = "ct_open"]

\* "if interface_exists(&name)" of the create arm
CreateArm(rec, ex) ==
    IF ex THEN print_error(rec, <<"TAP device already exists", "">>)
    ELSE [Called(rec, "create_tap") EXCEPT !.pc = "ct_open"]

\* Mutant: the delete arm always goes on to delete_interface.
DeleteArmNoShortcut(rec, ex) ==
    [Called(rec, "delete_interface") EXCEPT !.pc = "di_stat"]

\* "if !interface_exists(&name)" of the delete arm: not an error, exit(0)
DeleteArm(rec, ex) ==
    IF ~ex THEN Finish(rec, 0, "stdout", "success", "", <<"TAP device does not exist", "">>)
    ELSE [Called(rec, "delete_interface") EXCEPT !.pc = "di_stat"]

\* "if !interface_exists(&name)" of the setup-bridge arm
SetupArm(rec, ex) ==
    IF ~ex THEN [Called(rec, "create_bridge") EXCEPT !.pc = "cb_socket"]
    ELSE [Called(rec, "set_ip_address") EXCEPT !.pc = "ip_begin"]

\* interface_exists(&name) in each arm of main
Exists(p) ==
    LET rec == proc[p]
        ex == interface_exists(kern, rec.name)
    IN  /\ rec.pc = "exists"
        /\ UNCHANGED <<kern, runs>>
        /\ Set(p, CASE rec.cmd = "create" -> CreateArm(rec, ex)
                    [] rec.cmd = "delete" -> DeleteArm(rec, ex)
                    [] OTHER -> SetupArm(rec, ex))

\* --------------------------------------------------------------- create_tap

CtOpen(p) ==
    LET rec == proc[p]
    IN  /\ rec.pc = "ct_open"
        /\ UNCHANGED <<kern, runs>>
        /\ \E res \in {"ok", "EPERM"} :
             LET r1 == Noted(Logged(rec, <<Sys("open_tun", <<>>, res)>>), res)
             IN  IF res = "ok"
                 THEN Set(p, [r1 EXCEPT !.tun = "open", !.tunAt = 0, !.pc = "ct_setiff"])
                 ELSE Set(p, AfterCreateTap(r1, <<"Failed to open /dev/net/tun", res>>))

\* The flags create_tap binds with.
CreateFlags == IFF_TAP + IFF_NO_PI + IFF_VNET_HDR

CtSetIff(p) ==
    LET rec == proc[p]
    IN  /\ rec.pc = "ct_setiff"
        /\ UNCHANGED runs
        /\ \E res \in TunSetIffOutcomes(kern, proc, rec.name) :
             LET r1 == Noted(Logged(rec, <<Sys("TUNSETIFF", <<CreateFlags>>, res)>>), res)
             IN  IF res = "new"
                 THEN /\ kern' = KTapCreate(kern, rec.name, CreateFlags)
                      /\ Set(p, [r1 EXCEPT !.tunAt = kern.nextIdx, !.pc = "ct_owner"])
                 ELSE IF res = "attach"
                 THEN /\ kern' = KTapAttach(kern, rec.name, CreateFlags)
                      /\ Set(p, [r1 EXCEPT !.tunAt = kern.ifs[rec.name].idx, !.pc = "ct_owner"])
                 ELSE /\ UNCHANGED kern
                      /\ Set(p, AfterCreateTap(
                              [Logged(r1, <<Sys("close_tun", <<>>, "ok")>>) EXCEPT !.tun = "closed"],
                              <<"Failed to create TAP device", res>>))

\* An ioctl on the attached tun descriptor: it reaches the device if the
\* device is still there.
TunIoctlOutcomes(k, i) == IF NameOfIdx(k, i) = {} THEN {"EBADFD"} ELSE {"ok", "EPERM"}

\* create_tap's ioctls TUNSETOWNER and TUNSETGROUP.  A failure leads to the
\* close and the Err of that step.
CtIoctl(p, at, call, arg, next, msg) ==
    LET rec == proc[p]
    IN  /\ rec.pc = at
        /\ UNCHANGED runs
        /\ \E res \in TunIoctlOutcomes(kern, rec.tunAt) :
             LET r1 == Noted(Logged(rec, <<Sys(call, <<arg>>, res)>>), res)
                 n == CHOOSE x \in NameOfIdx(kern, rec.tunAt) : TRUE
             IN  IF res = "ok"
                 THEN /\ kern' = IF call = "TUNSETOWNER"
                                 THEN [kern EXCEPT !.ifs[n].owner = arg]
                                 ELSE [kern EXCEPT !.ifs[n].group = arg]
                      /\ Set(p, [r1 EXCEPT !.pc = next])
                 ELSE /\ UNCHANGED kern
                      /\ Set(p, [r1 EXCEPT !.pc = "ct_fail", !.err = <<msg, res>>])

\* owner_uid.unwrap_or_else(getuid), owner_gid.unwrap_or_else(getgid)
OwnerOf(opt) == IF opt = -1 THEN CallerId ELSE opt

CtSetOwner(p) ==
    CtIoctl(p, "ct_owner", "TUNSETOWNER", OwnerOf(proc[p].uid), "ct_group",
            "Failed to set TAP owner")

CtSetGroup(p) ==
    CtIoctl(p, "ct_group", "TUNSETGROUP", OwnerOf(proc[p].gid), "ct_persist",
            "Failed to set TAP group")

CtSetPersist(p) ==
    LET rec == proc[p]
    IN  /\ rec.pc = "ct_persist"
        /\ UNCHANGED runs
        /\ \E res \in TunIoctlOutcomes(kern, rec.tunAt) :
             LET r1 == Noted(Logged(rec, <<Sys("TUNSETPERSIST", <<1>>, res)>>), res)
                 n == CHOOSE x \in NameOfIdx(kern, rec.tunAt) : TRUE
             IN  IF res = "ok"
                 THEN /\ kern' = [kern EXCEPT !.ifs[n].persist = TRUE]
                      /\ Set(p, AfterCreateTap(r1, OK))
                 ELSE /\ UNCHANGED kern
                      /\ Set(p, [r1 EXCEPT !.pc = "ct_fail", !.err = <<"Failed to set TAP persistence", res>>])

\* Mutant: the Err is returned without the close.
CtFailNoClose(p) ==
    /\ proc[p].pc = "ct_fail"
    /\ UNCHANGED <<kern, runs>>
    /\ Set(p, AfterCreateTap(proc[p], proc[p].err))

\* "let _ = close(tun_fd); return Err(...)" after a failed ioctl
CtFail(p) ==
    LET rec == proc[p]
    IN  /\ rec.pc = "ct_fail"
        /\ UNCHANGED runs
        /\ kern' = KTunClose(kern, proc, p, rec.tunAt)
        /\ Set(p, AfterCreateTap(
                [Logged(rec, <<Sys("close_tun", <<>>, "ok")>>) EXCEPT !.tun = "closed"],
                rec.err))

\* "let _ = close(tap_fd)" in main
MainCloseTap(p) ==
    LET rec == proc[p]
    IN  /\ rec.pc = "main_close"
        /\ UNCHANGED runs
        /\ kern' = KTunClose(kern, proc, p, rec.tunAt)
        /\ Set(p, [Called(Logged(rec, <<Sys("close_tun", <<>>, "ok")>>), "add_to_bridge")
                     EXCEPT !.tun = "closed", !.pc = "ab_exists"])

\* ------------------------------------------------------------ add_to_bridge

AbExists(p) ==
    LET rec == proc[p]
    IN  /\ rec.pc = "ab_exists"
        /\ UNCHANGED <<kern, runs>>
        /\ IF ~interface_exists(kern, rec.bridge)
           THEN Set(p, AfterAddToBridge(rec, <<"Bridge does not exist", "">>))
           ELSE Set(p, [rec EXCEPT !.pc = "ab_index"])

AbIndex(p) ==
    LET rec == proc[p]
        i == get_interface_index(kern, rec.name)
    IN  /\ rec.pc = "ab_index"
        /\ UNCHANGED <<kern, runs>>
        /\ IF i = 0
           THEN Set(p, AfterAddToBridge(rec, <<"Failed to read ifindex", "ENOENT">>))
           ELSE Set(p, [rec EXCEPT !.reg = i, !.pc = "ab_socket"])

AbSocket(p) == Socket(p, "ab_socket", "ab_addif", "add_to_bridge")

\* ioctl(SIOCBRADDIF), close(sock_fd), then the result
AbAddIf(p) ==
    LET rec == proc[p]
    IN  /\ rec.pc = "ab_addif"
        /\ UNCHANGED runs
        /\ \E res \in BrAddIfOutcomes(kern, rec.bridge, rec.reg) :
             LET r1 == [Noted(Logged(rec, <<Sys("SIOCBRADDIF", <<rec.reg>>, res),
                                           Sys("close_sock", <<>>, "ok")>>), res)
                          EXCEPT !.sock = "closed"]
             IN  /\ kern' = IF res = "ok" THEN KBrAddIf(kern, rec.bridge, rec.reg) ELSE kern
                 /\ Set(p, AfterAddToBridge(r1, IF res = "ok" THEN OK
                                                ELSE <<"Failed to add TAP to bridge", res>>))

\* ----------------------------------------------------------------- bring_up

BuSocket(p) == Socket(p, "bu_socket", "bu_get", "bring_up")

\* ioctl(SIOCGIFFLAGS); on failure close(sock_fd) and Err
BuGetFlags(p) ==
    LET rec == proc[p]
    IN  /\ rec.pc = "bu_get"
        /\ UNCHANGED <<kern, runs>>
        /\ \E res \in IfFlagsOutcomes(kern, rec.name) :
             LET r1 == Noted(Logged(rec, <<Sys("SIOCGIFFLAGS", <<>>, res)>>), res)
             IN  IF res = "ok"
                 THEN Set(p, [r1 EXCEPT !.reg = kern.ifs[rec.name].flags, !.pc = "bu_set"])
                 ELSE Set(p, AfterBringUp(
                         [Logged(r1, <<Sys("close_sock", <<>>, "ok")>>) EXCEPT !.sock = "closed"],
                         <<"Failed to get interface flags", res>>))

\* ifr_flags |= IFF_UP; ioctl(SIOCSIFFLAGS); close(sock_fd); then the result
BuSetFlags(p) ==
    LET rec == proc[p]
        fl == OrUp(rec.reg)
    IN  /\ rec.pc = "bu_set"
        /\ UNCHANGED runs
        /\ \E res \in IfFlagsOutcomes(kern, rec.name) :
             LET r1 == [Noted(Logged(rec, <<Sys("SIOCSIFFLAGS", <<fl>>, res),
                                           Sys("close_sock", <<>>, "ok")>>), res)
                          EXCEPT !.sock = "closed"]
             IN  /\ kern' = IF res = "ok" THEN [kern EXCEPT !.ifs[rec.name].flags = fl] ELSE kern
                 /\ Set(p, AfterBringUp(r1, IF res = "ok" THEN OK
                                            ELSE <<"Failed to bring up interface", res>>))

\* --------------------------------------------------------- delete_interface

\* Path::new("/sys/class/net/<name>/operstate").exists()
DiStat(p) ==
    LET rec == proc[p]
    IN  /\ rec.pc = "di_stat"
        /\ UNCHANGED <<kern, runs>>
        /\ IF ~interface_exists(kern, rec.name)
           THEN Set(p, AfterDelete(rec, <<"Interface does not exist", "">>))
           ELSE Set(p, [rec EXCEPT !.pc = "di_open"])

DiOpen(p) ==
    LET rec == proc[p]
    IN  /\ rec.pc = "di_open"
        /\ UNCHANGED <<kern, runs>>
        /\ \E res \in {"ok", "EPERM"} :
             LET r1 == Noted(Logged(rec, <<Sys("open_tun", <<>>, res)>>), res)
             IN  IF res = "ok"
                 THEN Set(p, [r1 EXCEPT !.tun = "open", !.tunAt = 0, !.pc = "di_setiff"])
                 ELSE Set(p, [r1 EXCEPT !.pc = "di_ip"])

\* The flags delete_interface binds with.
DeleteFlags == IFF_TAP + IFF_NO_PI

\* ioctl(TUNSETIFF) to attach to the existing tap; on failure close(tun_fd)
\* and the ip command
DiSetIff(p) ==
    LET rec == proc[p]
    IN  /\ rec.pc = "di_setiff"
        /\ UNCHANGED runs
        /\ \E res \in TunSetIffOutcomes(kern, proc, rec.name) :
             LET r1 == Noted(Logged(rec, <<Sys("TUNSETIFF", <<DeleteFlags>>, res)>>), res)
             IN  IF res = "new"
                 THEN /\ kern' = KTapCreate(kern, rec.name, DeleteFlags)
                      /\ Set(p, [r1 EXCEPT !.tunAt = kern.nextIdx, !.pc = "di_persist"])
                 ELSE IF res = "attach"
                 THEN /\ kern' = KTapAttach(kern, rec.name, DeleteFlags)
                      /\ Set(p, [r1 EXCEPT !.tunAt = kern.ifs[rec.name].idx, !.pc = "di_persist"])
                 ELSE /\ UNCHANGED kern
                      /\ Set(p, [Logged(r1, <<Sys("close_tun", <<>>, "ok")>>)
                                   EXCEPT !.tun = "closed", !.pc = "di_ip"])

\* ioctl(TUNSETPERSIST, 0)
DiClearPersist(p) ==
    LET rec == proc[p]
    IN  /\ rec.pc = "di_persist"
        /\ UNCHANGED runs
        /\ \E res \in TunIoctlOutcomes(kern, rec.tunAt) :
             LET r1 == Noted(Logged(rec, <<Sys("TUNSETPERSIST", <<0>>, res)>>), res)
                 n == CHOOSE x \in NameOfIdx(kern, rec.tunAt) : TRUE
             IN  IF res = "ok"
                 THEN /\ kern' = [kern EXCEPT !.ifs[n].persist = FALSE]
                      /\ Set(p, [r1 EXCEPT !.pc = "di_close", !.err = OK])
                 ELSE /\ UNCHANGED kern
                      /\ Set(p, [r1 EXCEPT !.pc = "di_close",
                                           !.err = <<"Failed to clear TAP persistence", res>>])

\* "let _ = close(tun_fd)" and the return, after TUNSETPERSIST
DiClose(p) ==
    LET rec == proc[p]
    IN  /\ rec.pc = "di_close"
        /\ UNCHANGED runs
        /\ kern' = KTunClose(kern, proc, p, rec.tunAt)
        /\ Set(p, AfterDelete(
                [Logged(rec, <<Sys("close_tun", <<>>, "ok")>>) EXCEPT !.tun = "closed"],
                rec.err))

\* Command::new("ip").args(["link", "delete", name]).output()
DiIp(p) ==
    LET rec == proc[p]
    IN  /\ rec.pc = "di_ip"
        /\ UNCHANGED runs
        /\ \E res \in IpLinkDeleteOutcomes(kern, rec.name) :
             LET r1 == Noted(Logged(rec, <<Sys("ip_link_delete", <<>>, res)>>), res)
             IN  /\ kern' = IF res = "ok" THEN KRemove(kern, rec.name) ELSE kern
                 /\ Set(p, AfterDelete(r1,
                        CASE res = "ok" -> OK
                          [] res = "exec" -> <<"Failed to execute ip command", res>>
                          [] OTHER -> <<"Failed to delete interface", res>>))

\* ------------------------------------------------------------ create_bridge

CbSocket(p) == Socket(p, "cb_socket", "cb_addbr", "create_bridge")

\* Mutant: every failure of SIOCBRADDBR is an error, EEXIST included.
CbAddBrStrict(p) ==
    LET rec == proc[p]
    IN  /\ rec.pc = "cb_addbr"
        /\ UNCHANGED runs
        /\ \E res \in BrAddBrOutcomes(kern, rec.name) :
             LET r1 == [Noted(Logged(rec, <<Sys("SIOCBRADDBR", <<>>, res),
                                           Sys("close_sock", <<>>, "ok")>>), res)
                          EXCEPT !.sock = "closed"]
             IN  /\ kern' = IF res = "ok" THEN KBrAddBr(kern, rec.name) ELSE kern
                 /\ Set(p, AfterCreateBridge(r1,
                        IF res # "ok" THEN <<"Failed to create bridge", res>> ELSE OK))

\* ioctl(SIOCBRADDBR); close(sock_fd); EEXIST is not an error
CbAddBr(p) ==
    LET rec == proc[p]
    IN  /\ rec.pc = "cb_addbr"
        /\ UNCHANGED runs
        /\ \E res \in BrAddBrOutcomes(kern, rec.name) :
             LET r1 == [Noted(Logged(rec, <<Sys("SIOCBRADDBR", <<>>, res),
                                           Sys("close_sock", <<>>, "ok")>>), res)
                          EXCEPT !.sock = "closed"]
             IN  /\ kern' = IF res = "ok" THEN KBrAddBr(kern, rec.name) ELSE kern
                 /\ Set(p, AfterCreateBridge(r1,
                        IF res \notin {"ok", "EEXIST"}
                        THEN <<"Failed to create bridge", res>> ELSE OK))

\* ----------------------------------------------------------- set_ip_address

\* An ioctl on the control socket reaches the kernel only if the descriptor
\* is open; on a closed descriptor it fails with EBADF.
OnSock(rec, outcomes) == IF rec.sock = "open" THEN outcomes ELSE {"EBADF"}

\* close(sock_fd): EBADF when the descriptor is closed already
CloseSock(rec) ==
    [Logged(rec, <<Sys("close_sock", <<>>, IF rec.sock = "open" THEN "ok" ELSE "EBADF")>>)
       EXCEPT !.sock = "closed"]

\* The CIDR parsing, then create_control_socket()?
IpBegin(p) ==
    LET rec == proc[p]
        c == ParseCidr(rec.ip)
    IN  /\ rec.pc = "ip_begin"
        /\ UNCHANGED <<kern, runs>>
        /\ IF c.res # "ok" THEN Set(p, AfterSetIp(rec, <<c.res, "">>))
           ELSE \E res \in {"ok", "EPERM"} :
             LET r1 == Noted(Logged(rec, <<Sys("socket", <<>>, res)>>), res)
             IN  IF res = "ok"
                 THEN Set(p, [r1 EXCEPT !.sock = "open", !.octets = c.octets,
                                        !.prefix = c.prefix, !.pc = "ip_addr"])
                 ELSE Set(p, AfterSetIp(r1, <<"Failed to create socket", res>>))

\* Mutant: the socket is closed only on the tolerated errno.
AddrFailedLeak(rec, res) ==
    IF res # "EEXIST" THEN AfterSetIp(rec, <<"Failed to set IP address", res>>)
    ELSE [CloseSock(rec) EXCEPT !.pc = "ip_mask"]

\* What set_ip_address does when SIOCSIFADDR failed with errno res: it closes
\* the socket, and returns Err unless the errno is EEXIST.
AddrFailed(rec, res) ==
    LET r1 == CloseSock(rec)
    IN  IF res # "EEXIST" THEN AfterSetIp(r1, <<"Failed to set IP address", res>>)
        ELSE [r1 EXCEPT !.pc = "ip_mask"]

\* ioctl(SIOCSIFADDR)
IpSetAddr(p) ==
    LET rec == proc[p]
    IN  /\ rec.pc = "ip_addr"
        /\ UNCHANGED runs
        /\ \E res \in OnSock(rec, IfAddrOutcomes(kern, rec.name, rec.octets)) :
             LET r1 == Noted(Logged(rec, <<Sys("SIOCSIFADDR", rec.octets, res)>>), res)
             IN  /\ kern' = KIfAddr(kern, rec.name, rec.octets, res)
                 /\ IF res # "ok" THEN Set(p, AddrFailed(r1, res))
                    ELSE Set(p, [r1 EXCEPT !.pc = "ip_mask"])

\* The netmask, ioctl(SIOCSIFNETMASK), close(sock_fd), then the result
IpNetmask(p) ==
    LET rec == proc[p]
    IN  /\ rec.pc = "ip_mask"
        /\ UNCHANGED runs
        /\ \E m \in NetmaskOutcomes(rec.prefix) :
             /\ rec.build = "unknown" \/ (m.panic <=> rec.build = "checked")
             /\ IF m.panic
                THEN /\ UNCHANGED kern
                     /\ Set(p, Finish([Logged(rec, <<Sys("panic", <<>>, "")>>)
                                         EXCEPT !.build = "checked"],
                                      101, "stderr", "panic", "",
                                      <<"attempt to subtract with overflow", "">>))
                ELSE \E res \in OnSock(rec, IfNetmaskOutcomes(kern, rec.name)) :
                  LET r0 == IF rec.prefix > 32 THEN [rec EXCEPT !.build = "wrapping"] ELSE rec
                      r1 == CloseSock(Noted(Logged(r0, <<Sys("SIOCSIFNETMASK", m.bytes, res)>>), res))
                  IN  /\ kern' = IF res = "ok" THEN [kern EXCEPT !.ifs[rec.name].mask = m.bytes]
                                 ELSE kern
                      /\ Set(p, AfterSetIp(r1, IF res = "ok" THEN OK
                                               ELSE <<"Failed to set netmask", res>>))

\* ------------------------------------------------------------ specification

\* An interface table found at the start: each name is free, a persistent tap,
\* a new bridge, a bridge with a further address configured, or a bridge that
\* is up and addressed.
InitIfaces(n, i) ==
    { Absent,
      [Absent EXCEPT !.kind = "tap", !.idx = i, !.tflags = CreateFlags, !.persist = TRUE,
                     !.owner = CallerId, !.group = CallerId, !.flags = NewDevFlags],
      [Absent EXCEPT !.kind = "bridge", !.idx = i, !.flags = NewDevFlags],
      [Absent EXCEPT !.kind = "bridge", !.idx = i, !.flags = NewDevFlags,
                     !.others = {<<10, 0, 0, 1>>}],
      [Absent EXCEPT !.kind = "bridge", !.idx = i, !.flags = NewDevFlags + IFF_UP,
                     !.addr = <<192, 168, 1, 1>>, !.mask = <<255, 255, 255, 0>>] }

InitKern ==
    \E t \in InitIfaces(TAP0, 1), b \in InitIfaces(BR0, 2) :
        kern = [ifs |-> [n \in ValidNames |-> IF n = TAP0 THEN t ELSE b], nextIdx |-> 3]

\* One invocation after the other.
Init ==
    /\ InitKern
    /\ proc = [p \in Procs |-> IF p = 1 THEN IdleProc ELSE OffProc]
    /\ runs = 0

Step(p) ==
    \/ Start(p) \/ Rerun(p) \/ Validate(p) \/ CheckCaps(p) \/ Exists(p)
    \/ CtOpen(p) \/ CtSetIff(p) \/ CtSetOwner(p) \/ CtSetGroup(p) \/ CtSetPersist(p)
    \/ CtFail(p) \/ MainCloseTap(p)
    \/ AbExists(p) \/ AbIndex(p) \/ AbSocket(p) \/ AbAddIf(p)
    \/ BuSocket(p) \/ BuGetFlags(p) \/ BuSetFlags(p)
    \/ DiStat(p) \/ DiOpen(p) \/ DiSetIff(p) \/ DiClearPersist(p) \/ DiClose(p) \/ DiIp(p)
    \/ CbSocket(p) \/ CbAddBr(p)
    \/ IpBegin(p) \/ IpSetAddr(p) \/ IpNetmask(p)

Next == \E p \in Procs : Step(p)

Spec == Init /\ [][Next]_vars

\* ================================================================ properties

Done(rec) == rec.pc = "done"

\* The system calls of the invocation, in order.
SysCalls(rec) ==
    SelectSeq(rec.log, LAMBDA e : e.c \notin {"call", "ret_ok", "ret_err",
                                              "check_capabilities", "panic"})

Has(rec, c) == \E i \in 1..Len(rec.log) : rec.log[i].c = c
HasCall(rec, fn) == \E i \in 1..Len(rec.log) : rec.log[i].c = "call" /\ rec.log[i].r = fn
RetOk(rec, fn) == \E i \in 1..Len(rec.log) : rec.log[i].c = "ret_ok" /\ rec.log[i].r = fn
RetErr(rec, fn) == \E i \in 1..Len(rec.log) : rec.log[i].c = "ret_err" /\ rec.log[i].r = fn

\* The kernel control calls: tap bind/owner/group/persist, bridge create and
\* attach, flags set, address and netmask set.
ControlCalls == {"TUNSETIFF", "TUNSETOWNER", "TUNSETGROUP", "TUNSETPERSIST",
                 "SIOCBRADDBR", "SIOCBRADDIF", "SIOCSIFFLAGS", "SIOCSIFADDR",
                 "SIOCSIFNETMASK"}

\* The process holds CAP_NET_ADMIN as far as the helper can tell.
CapabilityHeld(env) == env.capEff = 4096 \/ (env.capEff = -1 /\ env.root)

NamesValid(rec) ==
    /\ rec.name \in ValidNames
    /\ rec.cmd = "create" => rec.bridge \in ValidNames

\* A create whose tap was created and whose attach or bring-up then failed.
FailedAfterCreate(rec) ==
    /\ Done(rec) /\ rec.cmd = "create"
    /\ RetOk(rec, "create_tap")
    /\ RetErr(rec, "add_to_bridge") \/ RetErr(rec, "bring_up")

\* A step of the rollback deletion was refused by the environment.
DeletionRefused(rec) ==
    \E i, j \in 1..Len(rec.log) :
        /\ i < j
        /\ rec.log[i].c = "call" /\ rec.log[i].r = "delete_interface"
        /\ IsFault(rec.log[j].r)

\* C1 (as stated): whenever the tap was created and attach or bring-up then
\* failed, the tap name does not exist when the invocation ends, whatever the
\* outcome of the steps of the deletion.
C1_Original ==
    \A p \in Procs : FailedAfterCreate(proc[p]) => ~interface_exists(kern, proc[p].name)

\* C1 (amended): whenever the tap was created and attach or bring-up then
\* failed, the rollback deletion is attempted; the tap name does not exist
\* when the invocation ends if the deletion returned Ok, and the deletion
\* returns Ok unless one of its steps is refused.
C1_RollbackBestEffort ==
    \A p \in Procs :
        FailedAfterCreate(proc[p]) =>
            /\ HasCall(proc[p], "delete_interface")
            /\ RetOk(proc[p], "delete_interface") => ~interface_exists(kern, proc[p].name)
            /\ ~DeletionRefused(proc[p]) => RetOk(proc[p], "delete_interface")

C1_Witness ==
    \E p \in Procs :
        /\ FailedAfterCreate(proc[p])
        /\ RetOk(proc[p], "delete_interface")
        /\ ~interface_exists(kern, proc[p].name)

\* The system calls of a create in which every step succeeded.
CreateCalls(rec, idx, flags) ==
    << Sys("open_tun", <<>>, "ok"),
       Sys("TUNSETIFF", <<IFF_TAP + IFF_NO_PI + IFF_VNET_HDR>>, "new"),
       Sys("TUNSETOWNER", <<IF rec.uid = -1 THEN CallerId ELSE rec.uid>>, "ok"),
       Sys("TUNSETGROUP", <<IF rec.gid = -1 THEN CallerId ELSE rec.gid>>, "ok"),
       Sys("TUNSETPERSIST", <<1>>, "ok"),
       Sys("close_tun", <<>>, "ok"),
       Sys("socket", <<>>, "ok"),
       Sys("SIOCBRADDIF", <<idx>>, "ok"),
       Sys("close_sock", <<>>, "ok"),
       Sys("socket", <<>>, "ok"),
       Sys("SIOCGIFFLAGS", <<>>, "ok"),
       Sys("SIOCSIFFLAGS", <<flags>>, "ok"),
       Sys("close_sock", <<>>, "ok") >>

\* C2: when create reports success, every step has succeeded in order (bind
\* with tap, no-packet-info and virtio-net-header flags, owner, group,
\* persistent, handle closed, attached to the bridge, UP set), and the tap
\* exists, is persistent, is a port of the bridge and is up.
C2_SuccessMeansAllSteps ==
    \A p \in Procs :
        LET rec == proc[p]
            t == kern.ifs[rec.name]
        IN  (Done(rec) /\ rec.cmd = "create" /\ rec.exit = 0) =>
              /\ rec.out.kind = "success"
              /\ SysCalls(rec) = CreateCalls(rec, t.idx, t.flags)
              /\ t.kind = "tap" /\ t.persist
              /\ t.tflags = 20482
              /\ t.owner = (IF rec.uid = -1 THEN CallerId ELSE rec.uid)
              /\ t.group = (IF rec.gid = -1 THEN CallerId ELSE rec.gid)
              /\ t.master = rec.bridge /\ kern.ifs[rec.bridge].kind = "bridge"
              /\ t.flags % 2 = 1

C2_Witness ==
    \E p \in Procs : Done(proc[p]) /\ proc[p].cmd = "create" /\ proc[p].exit = 0

PreconditionMsgs == {"TAP device already exists", "Bridge does not exist"}

\* C3 (as stated): whenever create fails because of a precondition (tap name
\* already exists, bridge does not exist), no kernel control call has been
\* issued by the invocation.
C3_Original ==
    \A p \in Procs :
        LET rec == proc[p]
        IN  (Done(rec) /\ rec.cmd = "create" /\ rec.out.msg[1] \in PreconditionMsgs) =>
              \A i \in 1..Len(rec.log) : rec.log[i].c \notin ControlCalls

\* C3 (amended): a create on a tap name that already exists fails with that
\* error having issued no system call at all; a missing bridge is detected
\* only after the tap was created: by then the tap's bind, owner, group and
\* persist calls have been issued and the rollback deletion follows, but no
\* bridge, flags or address call is ever issued.
C3_PreconditionCalls ==
    \A p \in Procs :
        LET rec == proc[p]
        IN  (Done(rec) /\ rec.cmd = "create") =>
              /\ (NamesValid(rec) /\ CapabilityHeld(rec.env)
                    /\ interface_exists(rec.k0, rec.name)) =>
                   /\ rec.exit = 1 /\ rec.out.msg[1] = "TAP device already exists"
                   /\ SysCalls(rec) = <<>>
                   /\ kern = rec.k0
              /\ rec.out.msg[1] = "TAP device already exists" => SysCalls(rec) = <<>>
              /\ rec.out.msg[1] = "Bridge does not exist" =>
                   /\ Len(SysCalls(rec)) >= 6
                   /\ SubSeq(SysCalls(rec), 1, 6) = SubSeq(CreateCalls(rec, 0, 0), 1, 6)
                   /\ HasCall(rec, "delete_interface")
                   /\ \A i \in 1..Len(rec.log) :
                        rec.log[i].c \notin {"socket", "SIOCBRADDBR", "SIOCBRADDIF",
                                             "SIOCGIFFLAGS", "SIOCSIFFLAGS",
                                             "SIOCSIFADDR", "SIOCSIFNETMASK"}

C3_Witness ==
    \E p \in Procs :
        /\ Done(proc[p]) /\ proc[p].cmd = "create"
        /\ proc[p].out.msg[1] = "TAP device already exists"
        /\ interface_exists(proc[p].k0, proc[p].name)

\* The calls that need the privilege: the control calls and the fallback
\* deletion command.
PrivilegedCalls == ControlCalls \cup {"ip_link_delete"}

Compound == {"create", "delete", "setup-bridge"}

\* The CIDR arguments with a syntax error.
BadSyntaxIps == {IP_NoSlash, IP_ThreeOctets, IP_BadPrefix}

\* C4 (as stated): in create, delete and setup-bridge, if a name fails
\* validation or the CIDR address of setup-bridge is syntactically invalid,
\* the invocation fails without having issued any privileged kernel call,
\* bridge creation included.
C4_Original ==
    \A p \in Procs :
        LET rec == proc[p]
        IN  (/\ Done(rec) /\ rec.cmd \in Compound
             /\ ~NamesValid(rec) \/ (rec.cmd = "setup-bridge" /\ rec.ip \in BadSyntaxIps)) =>
              /\ rec.exit # 0
              /\ \A i \in 1..Len(rec.log) : rec.log[i].c \notin PrivilegedCalls

\* C5: in create, delete and setup-bridge the capability check runs after
\* name validation and before the first mutating call, and when the
\* capability is missing the invocation fails having issued no mutating call.
C5_CapabilityGate ==
    \A p \in Procs :
        LET rec == proc[p]
        IN  rec.cmd \in Compound =>
              /\ \A i \in 1..Len(rec.log) :
                    rec.log[i].c \in PrivilegedCalls =>
                        \E j \in 1..(i - 1) : rec.log[j].c = "check_capabilities"
              /\ Has(rec, "check_capabilities") => NamesValid(rec)
              /\ (Done(rec) /\ NamesValid(rec)) => Has(rec, "check_capabilities")
              /\ (NamesValid(rec) /\ ~CapabilityHeld(rec.env)
                    /\ rec.pc \notin {"validate", "caps"}) =>
                   /\ Done(rec) /\ rec.exit = 1 /\ rec.out.kind = "error"
                   /\ rec.out.msg[1] = "Missing CAP_NET_ADMIN capability"
                   /\ SysCalls(rec) = <<>>
                   /\ kern = rec.k0

C5_Witness ==
    \E p \in Procs :
        /\ Done(proc[p]) /\ proc[p].cmd = "create" /\ NamesValid(proc[p])
        /\ ~CapabilityHeld(proc[p].env) /\ proc[p].exit = 1
        /\ ~interface_exists(kern, proc[p].name)

\* C6: delete on a name that is not an interface opens no tap control device,
\* issues no ioctl, runs no fallback command and leaves the interface table
\* as it was; past name validation and the capability check it exits 0.
C6_DeleteMissingIsNoOp ==
    \A p \in Procs :
        LET rec == proc[p]
        IN  (/\ Done(rec) /\ rec.cmd = "delete"
             /\ rec.name \in ValidNames => ~interface_exists(rec.k0, rec.name)) =>
              /\ SysCalls(rec) = <<>>
              /\ ~HasCall(rec, "delete_interface")
              /\ kern = rec.k0
              /\ (rec.name \in ValidNames /\ CapabilityHeld(rec.env)) =>
                    rec.exit = 0 /\ rec.out.kind = "success"

C6_Witness ==
    \E p \in Procs :
        /\ Done(proc[p]) /\ proc[p].cmd = "delete" /\ proc[p].name \in ValidNames
        /\ ~interface_exists(proc[p].k0, proc[p].name)
        /\ proc[p].exit = 0

\* The places in the log of the given entries.
Places(rec, c, r) == {i \in 1..Len(rec.log) : rec.log[i].c = c /\ rec.log[i].r = r}

\* C7: the error a failed create reports is the error attach or bring-up
\* returned, with exit status 1, whether the rollback deletion succeeds or
\* fails; the rollback deletion is attempted exactly once, after that error
\* and before the report.
C7_OriginalErrorReported ==
    \A p \in Procs :
        LET rec == proc[p]
            errs == Places(rec, "ret_err", "add_to_bridge") \cup Places(rec, "ret_err", "bring_up")
            dels == Places(rec, "call", "delete_interface")
        IN  (Done(rec) /\ rec.cmd = "create" /\ errs # {}) =>
              /\ Cardinality(errs) = 1
              /\ rec.exit = 1 /\ rec.out.kind = "error"
              /\ \A i \in errs : rec.out.msg = rec.log[i].a
              /\ Cardinality(dels) = 1
              /\ \A i \in errs, j \in dels : i < j
              /\ RetOk(rec, "delete_interface") \/ RetErr(rec, "delete_interface")

C7_Witness ==
    \E p \in Procs :
        /\ Done(proc[p]) /\ proc[p].cmd = "create"
        /\ RetErr(proc[p], "bring_up")
        /\ RetErr(proc[p], "delete_interface")
        /\ proc[p].out.msg[1] = "Failed to bring up interface"

\* C8: after a successful setup-bridge, running it again with the same bridge
\* name and address creates no bridge and changes nothing in the interface
\* table; with the capability held and no call refused by the environment it
\* succeeds, and the bridge is present, up and holds that address and netmask.
C8_SetupBridgeIdempotent ==
    \A p \in Procs :
        LET rec == proc[p]
        IN  (rec.cmd = "setup-bridge" /\ rec.prevExit = 0) =>
              /\ kern = rec.k0
              /\ ~Has(rec, "SIOCBRADDBR")
              /\ (Done(rec) /\ CapabilityHeld(rec.env) /\ ~rec.faulted) =>
                   /\ rec.exit = 0 /\ rec.out.kind = "success"
                   /\ interface_exists(kern, rec.name)
                   /\ kern.ifs[rec.name].flags % 2 = 1
                   /\ kern.ifs[rec.name].addr = ParseCidr(rec.ip).octets
                   /\ \E m \in NetmaskOutcomes(ParseCidr(rec.ip).prefix) :
                        ~m.panic /\ kern.ifs[rec.name].mask = m.bytes

C8_Witness ==
    \E p \in Procs :
        /\ Done(proc[p]) /\ proc[p].cmd = "setup-bridge" /\ proc[p].prevExit = 0
        /\ proc[p].name = BR0 /\ proc[p].ip = IP_A
        /\ proc[p].exit = 0 /\ ~proc[p].faulted
        /\ kern.ifs[BR0].kind = "bridge"
        /\ kern.ifs[BR0].addr = <<10, 0, 0, 1>>
        /\ kern.ifs[BR0].mask = <<255, 255, 255, 0>>

\* C9 (as stated): when the address-set call fails with already-exists and
\* the kernel would accept the netmask-set call, the netmask-set call is
\* delivered to an open control socket and set_ip_address returns Ok; any
\* failure of the netmask-set call makes set_ip_address return an error.
C9_Original ==
    \A p \in Procs :
        LET rec == proc[p]
            n == Len(rec.log)
            refused == \E i \in 1..n : /\ rec.log[i].c = "SIOCSIFNETMASK"
                                       /\ rec.log[i].r \in {"EPERM", "ENODEV", "EADDRNOTAVAIL"}
        IN  (RetOk(rec, "set_ip_address") \/ RetErr(rec, "set_ip_address")) =>
              /\ ((\E i \in 1..n : rec.log[i].c = "SIOCSIFADDR" /\ rec.log[i].r = "EEXIST")
                    /\ ~refused) =>
                   /\ \E i \in 1..n : rec.log[i].c = "SIOCSIFNETMASK" /\ rec.log[i].r = "ok"
                   /\ RetOk(rec, "set_ip_address")
              /\ (\E i \in 1..n : rec.log[i].c = "SIOCSIFNETMASK" /\ rec.log[i].r # "ok") =>
                   RetErr(rec, "set_ip_address")

\* C10 (as stated): every handle opened by an operation is closed before that
\* operation returns, on the success path and on every error path, and no
\* handle is open when the invocation ends.
C10_Original ==
    \A p \in Procs :
        /\ proc[p].retOpen = {}
        /\ Done(proc[p]) => proc[p].tun # "open" /\ proc[p].sock # "open"

\* C10 (amended): every handle is closed before the operation that opened it
\* returns, except that create_tap's success path returns the tap handle open
\* to main, which closes it as its next step; a handle is open only inside
\* the operation that opened it or at that step of main, and none is open
\* when the invocation ends by exit or by returning from main (a panic of the
\* netmask computation ends it with at most the control socket open).
C10_HandlesScoped ==
    \A p \in Procs :
        LET rec == proc[p]
        IN  /\ rec.retOpen \subseteq {<<"create_tap", "ret_ok">>}
            /\ rec.tun = "open" =>
                 rec.pc \in {"ct_setiff", "ct_owner", "ct_group", "ct_persist", "ct_fail",
                             "main_close", "di_setiff", "di_persist", "di_close"}
            /\ rec.sock = "open" =>
                 \/ rec.pc \in {"ab_addif", "bu_get", "bu_set", "cb_addbr", "ip_addr", "ip_mask"}
                 \/ Done(rec) /\ rec.exit = 101
            /\ (Done(rec) /\ rec.exit \in {0, 1}) =>
                 /\ rec.tun # "open" /\ rec.sock # "open"
                 /\ Cardinality(Places(rec, "open_tun", "ok"))
                      = Cardinality({i \in 1..Len(rec.log) : rec.log[i].c = "close_tun"})
                 /\ Cardinality(Places(rec, "socket", "ok"))
                      <= Cardinality({i \in 1..Len(rec.log) : rec.log[i].c = "close_sock"})

C10_Witness ==
    \E p \in Procs :
        /\ Done(proc[p]) /\ proc[p].cmd = "create" /\ proc[p].exit = 1
        /\ proc[p].retOpen = {<<"create_tap", "ret_ok">>}
        /\ RetErr(proc[p], "bring_up") /\ RetErr(proc[p], "delete_interface")
        /\ proc[p].tun = "closed" /\ proc[p].sock = "closed"

\* ------------------------------------------------ names through validation

\* The longest name tried.
MaxNameLen == 17

NameChars == {"a", "Z", "7", "-", "_", "/"}

\* n times the letter "a"
Pad(n) == [i \in 1..n |-> "a"]

\* The names tried: every string of at most two of NameChars, and the strings
\* of 13 letters and more, as they are and with the first or the last
\* character replaced.
NameInputs ==
    {<<>>}
    \cup {<<c>> : c \in NameChars}
    \cup {<<c, d>> : c \in NameChars, d \in NameChars}
    \cup UNION {{[Pad(n) EXCEPT ![i] = c] : i \in {1, n}, c \in NameChars \ {"/"}}
                  : n \in 13..MaxNameLen}
    \cup {[Pad(n) EXCEPT ![n] = "/"] : n \in 13..MaxNameLen}

\* delete --name <n>, about to validate the name
InitNames ==
    /\ kern = [ifs |-> [n \in ValidNames |-> Absent], nextIdx |-> 3]
    /\ runs = 1
    /\ \E n \in NameInputs, env \in Envs :
         proc = [p \in Procs |->
                   IF p = 1 THEN Fresh("delete", n, <<>>, <<>>, -1, -1, "text", env)
                   ELSE OffProc]

NextNames == \E p \in Procs : Validate(p)

SpecNames == InitNames /\ [][NextNames]_vars

\* The language [A-Za-z][A-Za-z0-9_-]*
MatchesNamePattern(name) ==
    /\ Len(name) >= 1
    /\ name[1] \in Lower \cup Upper
    /\ \A i \in 1..Len(name) : name[i] \in Lower \cup Upper \cup Digit \cup {"-", "_"}

\* The invocation is past the validation of its name.
Validated(rec) == rec.pc # "validate"
Accepted(rec) == rec.pc = "caps"

\* C11 (as stated): validation accepts exactly the strings of length 1 to 14
\* that match [A-Za-z][A-Za-z0-9_-]*.
C11_Original ==
    \A p \in Procs :
        Validated(proc[p]) /\ proc[p].pc # "off" =>
            (Accepted(proc[p]) <=>
                (Len(proc[p].name) \in 1..14 /\ MatchesNamePattern(proc[p].name)))

\* C11 (amended): validation accepts exactly the strings of length 1 to 15
\* that match [A-Za-z][A-Za-z0-9_-]*; every other string ends the invocation
\* with exit status 1 and an error.
C11_NamesUpTo15 ==
    \A p \in Procs :
        Validated(proc[p]) /\ proc[p].pc # "off" =>
            /\ Accepted(proc[p]) <=>
                 (Len(proc[p].name) \in 1..15 /\ MatchesNamePattern(proc[p].name))
            /\ ~Accepted(proc[p]) =>
                 /\ Done(proc[p]) /\ proc[p].exit = 1 /\ proc[p].out.kind = "error"
                 /\ Len(proc[p].name) = 0 =>
                      proc[p].out.msg[1] = "Interface name cannot be empty"
                 /\ Len(proc[p].name) >= 16 =>
                      proc[p].out.msg[1] = "Interface name too long"

C11_Witness ==
    \E p \in Procs : Accepted(proc[p]) /\ proc[p].name = Pad(15)

\* ------------------------------------------- addresses through set_ip_address

\* The largest prefix length tried.
MaxPrefix == 34

DigitChar(d) ==
    CASE d = 0 -> "0" [] d = 1 -> "1" [] d = 2 -> "2" [] d = 3 -> "3" [] d = 4 -> "4"
      [] d = 5 -> "5" [] d = 6 -> "6" [] d = 7 -> "7" [] d = 8 -> "8" [] d = 9 -> "9"

\* The decimal notation of n < 100
DecStr(n) == IF n < 10 THEN <<DigitChar(n)>> ELSE <<DigitChar(n \div 10), DigitChar(n % 10)>>

AddrStrs == { <<"1","7","2",".","3","1",".","0",".","1">>,
              <<"1","0",".","0",".","0",".","1">>,
              <<"1","9","2",".","1","6","8",".","1",".","1">> }

\* --ip <address>/<prefix> for each address and prefix length tried
CidrInputs == {a \o <<"/">> \o DecStr(n) : a \in AddrStrs, n \in 0..MaxPrefix}

\* setup-bridge --name br0 --ip <cidr> on an existing bridge, about to call
\* set_ip_address
InitMasks ==
    /\ kern = [ifs |-> [n \in ValidNames |->
                          IF n = BR0 THEN [Absent EXCEPT !.kind = "bridge", !.idx = 2,
                                                         !.flags = NewDevFlags]
                          ELSE Absent],
               nextIdx |-> 3]
    /\ runs = 1
    /\ \E ip \in CidrInputs :
         proc = [p \in Procs |->
                   IF p = 1
                   THEN SetupArm(Fresh("setup-bridge", BR0, <<>>, ip, -1, -1, "text",
                                       [capEff |-> 4096, root |-> FALSE]), TRUE)
                   ELSE OffProc]

NextMasks == \E p \in Procs : IpBegin(p) \/ IpSetAddr(p) \/ IpNetmask(p)

SpecMasks == InitMasks /\ [][NextMasks]_vars

\* Byte k of the 32-bit value with n leading one bits
LeadingOnesByte(n, k) ==
    LET ones == IF n >= 8 * k THEN 8 ELSE IF n <= 8 * (k - 1) THEN 0 ELSE n - 8 * (k - 1)
    IN  256 - Pow2(8 - ones)

LeadingOnes(n) == [k \in 1..4 |-> LeadingOnesByte(n, k)]

\* The netmask-set calls of the invocation
NetmaskCalls(rec) == {i \in 1..Len(rec.log) : rec.log[i].c = "SIOCSIFNETMASK"}

\* C12: for every prefix length p in 0..32 the netmask passed to the
\* netmask-set call has p leading one bits followed by 32 - p zero bits:
\* /24 gives 255.255.255.0, /0 gives 0.0.0.0, /32 gives 255.255.255.255.
C12_NetmaskLeadingOnes ==
    \A p \in Procs :
        LET rec == proc[p]
            n == ParseCidr(rec.ip).prefix
        IN  (rec.cmd = "setup-bridge" /\ ParseCidr(rec.ip).res = "ok" /\ n <= 32) =>
              /\ \A i \in NetmaskCalls(rec) :
                    /\ rec.log[i].a = LeadingOnes(n)
                    /\ n = 24 => rec.log[i].a = <<255, 255, 255, 0>>
                    /\ n = 0 => rec.log[i].a = <<0, 0, 0, 0>>
                    /\ n = 32 => rec.log[i].a = <<255, 255, 255, 255>>
              /\ ~Has(rec, "panic")
              /\ (\E i \in 1..Len(rec.log) : rec.log[i].c = "SIOCSIFADDR" /\ rec.log[i].r = "ok")
                    /\ rec.pc # "ip_mask" => NetmaskCalls(rec) # {}

C12_Witness ==
    \E p \in Procs :
        /\ proc[p].ip = <<"1","7","2",".","3","1",".","0",".","1","/","2","4">>
        /\ RetOk(proc[p], "set_ip_address")
        /\ \E i \in NetmaskCalls(proc[p]) :
              proc[p].log[i].a = <<255, 255, 255, 0>> /\ proc[p].log[i].r = "ok"
        /\ kern.ifs[BR0].mask = <<255, 255, 255, 0>>

\* The places in the log of the steps that failed: a function that returned
\* Err, a panic, or a system call answered with an errno or a failed command,
\* the already-exists answers to bridge creation and address setting apart.
FailedSteps(rec) ==
    {i \in 1..Len(rec.log) :
        \/ rec.log[i].c \in {"ret_err", "panic"}
        \/ /\ rec.log[i].c \notin {"call", "ret_ok", "ret_err", "check_capabilities", "panic"}
           /\ rec.log[i].r \notin {"ok", "new", "attach"}
           /\ ~(rec.log[i].c \in {"SIOCBRADDBR", "SIOCSIFADDR"} /\ rec.log[i].r = "EEXIST")}

\* C13 (as stated): an invocation exits 0 with a success result only if every
\* step it ran succeeded or was a tolerated already-exists outcome; whenever
\* any other step fails it exits non-zero with an error and no success result.
C13_Original ==
    \A p \in Procs :
        LET rec == proc[p]
        IN  Done(rec) =>
              /\ rec.exit = 0 <=> rec.out.kind = "success"
              /\ rec.exit = 0 => FailedSteps(rec) = {}
              /\ FailedSteps(rec) # {} => rec.exit # 0 /\ rec.out.kind \in {"error", "panic"}

\* C13 (amended): an invocation exits 0 exactly when it prints a success
\* result, and then no function of the helper returned an error and every
\* failed system call is the opening of or the attaching to the tap in a
\* delete whose fallback deletion command then succeeded; whenever a function
\* returns an error outside the rollback, or panics, the invocation exits
\* non-zero with an error and no success result.
C13_NoGuessedSuccess ==
    \A p \in Procs :
        LET rec == proc[p]
        IN  Done(rec) =>
              /\ rec.exit = 0 <=> rec.out.kind = "success"
              /\ rec.exit = 0 =>
                   \A i \in FailedSteps(rec) :
                      /\ rec.cmd = "delete"
                      /\ rec.log[i].c \in {"open_tun", "TUNSETIFF"}
                      /\ \E j \in (i + 1)..Len(rec.log) :
                            rec.log[j].c = "ip_link_delete" /\ rec.log[j].r = "ok"
              /\ (\E i \in 1..Len(rec.log) : rec.log[i].c \in {"ret_err", "panic"}) =>
                   /\ rec.exit \in {1, 101} /\ rec.out.kind \in {"error", "panic"}
                   /\ rec.exit = 101 <=> Has(rec, "panic")
              /\ (rec.cmd \in Compound /\ ~CapabilityHeld(rec.env)) => rec.exit = 1

C13_Witness ==
    \E p \in Procs :
        /\ Done(proc[p]) /\ proc[p].cmd = "delete" /\ proc[p].exit = 0
        /\ \E i \in FailedSteps(proc[p]) : proc[p].log[i].c = "TUNSETIFF"
        /\ ~interface_exists(kern, proc[p].name)

\* The calls of create_tap in their order, with the error each one's failure
\* is reported by.
TapSteps ==
    << <<"open_tun", "Failed to open /dev/net/tun">>,
       <<"TUNSETIFF", "Failed to create TAP device">>,
       <<"TUNSETOWNER", "Failed to set TAP owner">>,
       <<"TUNSETGROUP", "Failed to set TAP group">>,
       <<"TUNSETPERSIST", "Failed to set TAP persistence">> >>

\* The log of create_tap: what follows its call, up to its return.
CreateTapLog(rec) ==
    LET n == Len(rec.log)
        from == CHOOSE i \in 1..n : rec.log[i].c = "call" /\ rec.log[i].r = "create_tap"
        rets == {i \in 1..n : rec.log[i].c \in {"ret_ok", "ret_err"} /\ rec.log[i].r = "create_tap"}
        to == IF rets = {} THEN n ELSE CHOOSE i \in rets : TRUE
    IN  SubSeq(rec.log, from + 1, to)

\* C14: create_tap issues bind, set owner, set group, set persistent in that
\* order; at the first call that fails it closes the handle, issues none of
\* the later calls and returns the error of that step; it returns Ok, with
\* the handle open, only when all four succeeded, so that the persist call is
\* never issued unless the owner and group calls succeeded.
C14_CreateTapOrder ==
    \A p \in Procs :
        LET rec == proc[p]
            L == IF HasCall(rec, "create_tap") THEN CreateTapLog(rec) ELSE <<>>
            calls == SelectSeq(L, LAMBDA e : e.c \notin {"close_tun", "ret_ok", "ret_err"})
            k == Len(calls)
            good(e) == e.r \in {"ok", "new", "attach"}
        IN  HasCall(rec, "create_tap") =>
              /\ k <= 5
              /\ \A j \in 1..k : calls[j].c = TapSteps[j][1]
              /\ \A j \in 1..(k - 1) : good(calls[j])
              /\ \A j \in 1..Len(L) : L[j].c = "close_tun" => j > k /\ ~good(calls[k])
              /\ k = 5 => calls[5].a = <<1>>
              /\ RetOk(rec, "create_tap") =>
                   /\ k = 5 /\ good(calls[5])
                   /\ L = Append(calls, L[6])
                   /\ <<"create_tap", "ret_ok">> \in rec.retOpen
              /\ RetErr(rec, "create_tap") =>
                   /\ ~good(calls[k])
                   /\ L[Len(L)].a = <<TapSteps[k][2], calls[k].r>>
                   /\ Len(L) = (IF k = 1 THEN k + 1 ELSE k + 2)
                   /\ k > 1 => L[k + 1] = Sys("close_tun", <<>>, "ok")
                   /\ <<"create_tap", "ret_err">> \notin rec.retOpen

C14_Witness ==
    \E p \in Procs :
        /\ RetErr(proc[p], "create_tap")
        /\ \E i \in 1..Len(proc[p].log) :
              /\ proc[p].log[i].c = "TUNSETGROUP" /\ proc[p].log[i].r = "EPERM"
              /\ proc[p].log[i - 1] = Sys("TUNSETOWNER", <<CallerId>>, "ok")
              /\ proc[p].log[i + 1].c = "close_tun"
        /\ ~Has(proc[p], "TUNSETPERSIST")
        /\ proc[p].out.msg[1] = "Failed to set TAP group"
        /\ ~interface_exists(kern, proc[p].name)

\* C15: bring_up is a read-modify-write that alters only the UP bit: the
\* flags the set call writes are the flags the query call returned with the
\* UP bit set and every other bit as it was; if the query call fails no set
\* call is issued and an error is returned.
C15_BringUpOnlyUp ==
    [][\A p \in Procs :
          LET rec == proc[p]
              new == proc'[p]
              at == Len(rec.log) + 1
          IN  /\ (rec.pc = "bu_get" /\ new # rec) =>
                   /\ new.log[at].c = "SIOCGIFFLAGS"
                   /\ new.log[at].r = "ok" =>
                        new.pc = "bu_set" /\ new.reg = kern.ifs[rec.name].flags
                   /\ new.log[at].r # "ok" =>
                        /\ ~Has(new, "SIOCSIFFLAGS")
                        /\ \E i \in 1..Len(new.log) :
                              /\ new.log[i].c = "ret_err" /\ new.log[i].r = "bring_up"
                              /\ new.log[i].a[1] = "Failed to get interface flags"
                        /\ kern' = kern
              /\ (rec.pc = "bu_set" /\ new # rec) =>
                   /\ new.log[at].c = "SIOCSIFFLAGS"
                   /\ new.log[at].a[1] % 2 = 1
                   /\ new.log[at].a[1] \div 2 = rec.reg \div 2
                   /\ rec.reg = kern.ifs[rec.name].flags
                   /\ new.log[at].r = "ok" =>
                        kern' = [kern EXCEPT !.ifs[rec.name].flags = new.log[at].a[1]]
                   /\ new.log[at].r # "ok" => kern' = kern
    ]_vars

C15_Witness ==
    \E p \in Procs :
        /\ proc[p].cmd = "setup-bridge" /\ RetOk(proc[p], "bring_up")
        /\ proc[p].k0.ifs[proc[p].name].flags = NewDevFlags
        /\ \E i \in 1..Len(proc[p].log) :
              proc[p].log[i] = Sys("SIOCSIFFLAGS", <<NewDevFlags + IFF_UP>>, "ok")
        /\ kern.ifs[proc[p].name].flags = NewDevFlags + IFF_UP

\* C17: create on a tap name that already is an interface issues no bind,
\* attach or flags call and never runs the rollback deletion, and leaves the
\* interface as it was; past name validation and the capability check it
\* fails with the already-exists error.
C17_ExistingTapUntouched ==
    \A p \in Procs :
        LET rec == proc[p]
        IN  (rec.cmd = "create" /\ rec.name \in ValidNames
               /\ interface_exists(rec.k0, rec.name)) =>
              /\ \A i \in 1..Len(rec.log) :
                    rec.log[i].c \notin {"open_tun", "TUNSETIFF", "SIOCBRADDIF", "SIOCGIFFLAGS",
                                         "SIOCSIFFLAGS", "ip_link_delete"}
              /\ ~HasCall(rec, "delete_interface") /\ ~HasCall(rec, "create_tap")
              /\ kern.ifs[rec.name] = rec.k0.ifs[rec.name]
              /\ kern = rec.k0
              /\ Done(rec) =>
                   /\ rec.exit = 1 /\ rec.out.kind = "error"
                   /\ (NamesValid(rec) /\ CapabilityHeld(rec.env)) =>
                        rec.out.msg = <<"TAP device already exists", "">>

C17_Witness ==
    \E p \in Procs :
        /\ Done(proc[p]) /\ proc[p].cmd = "create" /\ proc[p].name = TAP0
        /\ proc[p].k0.ifs[TAP0].kind = "tap"
        /\ proc[p].out.msg = <<"TAP device already exists", "">>
        /\ kern.ifs[TAP0].kind = "tap" /\ kern.ifs[TAP0].persist

\* C19 (as stated): no kernel call is issued on a handle that has been closed
\* and no handle is closed more than once: no ioctl and no close is answered
\* with EBADF, and each descriptor opened is closed at most once.
C19_Original ==
    \A p \in Procs :
        LET rec == proc[p]
        IN  /\ \A i \in 1..Len(rec.log) : rec.log[i].r # "EBADF"
            /\ Cardinality({i \in 1..Len(rec.log) : rec.log[i].c = "close_sock"})
                 <= Cardinality(Places(rec, "socket", "ok"))

\* C20 (as stated): set_ip_address with a prefix length greater than 32
\* returns a validation error before the address-set call: it issues neither
\* the address-set nor the netmask-set call and computes no mask from an
\* out-of-range shift amount.
C20_Original ==
    \A p \in Procs :
        LET rec == proc[p]
            c == ParseCidr(rec.ip)
        IN  (rec.cmd = "setup-bridge" /\ c.res = "ok" /\ c.prefix > 32) =>
              /\ ~Has(rec, "SIOCSIFADDR") /\ ~Has(rec, "SIOCSIFNETMASK")
              /\ ~Has(rec, "panic")
              /\ ~RetOk(rec, "set_ip_address")

\* ------------------------------------------------- two invocations at once

\* Two invocations are started by the caller without waiting: each is
\* create --name tap0 --bridge br0 or setup-bridge --name br0 --ip 10.0.0.1/24,
\* run with the capability.
StartRace(p) ==
    /\ proc[p].pc = "idle"
    /\ runs < MaxRuns
    /\ runs' = runs + 1
    /\ UNCHANGED kern
    /\ \E cmd \in {"create", "setup-bridge"} :
         Set(p, IF cmd = "create"
                THEN Fresh("create", TAP0, BR0, <<>>, -1, -1, "json",
                           [capEff |-> 4096, root |-> FALSE])
                ELSE Fresh("setup-bridge", BR0, <<>>, IP_A, -1, -1, "text",
                           [capEff |-> 4096, root |-> FALSE]))

\* tap0 is free; br0 is free or a new bridge.
InitRace ==
    /\ \E b \in {Absent, [Absent EXCEPT !.kind = "bridge", !.idx = 2, !.flags = NewDevFlags]} :
         kern = [ifs |-> [n \in ValidNames |-> IF n = BR0 THEN b ELSE Absent], nextIdx |-> 3]
    /\ proc = [p \in Procs |-> IdleProc]
    /\ runs = 0

StepRace(p) ==
    \/ StartRace(p) \/ Validate(p) \/ CheckCaps(p) \/ Exists(p)
    \/ CtOpen(p) \/ CtSetIff(p) \/ CtSetOwner(p) \/ CtSetGroup(p) \/ CtSetPersist(p)
    \/ CtFail(p) \/ MainCloseTap(p)
    \/ AbExists(p) \/ AbIndex(p) \/ AbSocket(p) \/ AbAddIf(p)
    \/ BuSocket(p) \/ BuGetFlags(p) \/ BuSetFlags(p)
    \/ DiStat(p) \/ DiOpen(p) \/ DiSetIff(p) \/ DiClearPersist(p) \/ DiClose(p) \/ DiIp(p)
    \/ CbSocket(p) \/ CbAddBr(p)
    \/ IpBegin(p) \/ IpSetAddr(p) \/ IpNetmask(p)

NextRace == \E p \in Procs : StepRace(p)

SpecRace == InitRace /\ [][NextRace]_vars

\* C16: create_bridge returns Ok when SIOCBRADDBR succeeds or fails with
\* EEXIST and an error for every other failure, closing its socket in each
\* case; applied to a name that already exists it leaves the interface table
\* unchanged.
C16_CreateBridgeIdempotent ==
    [][\A p \in Procs :
          LET rec == proc[p]
              new == proc'[p]
              at == Len(rec.log) + 1
              res == new.log[at].r
          IN  (rec.pc = "cb_addbr" /\ new # rec) =>
                /\ new.log[at].c = "SIOCBRADDBR"
                /\ new.log[at + 1] = Sys("close_sock", <<>>, "ok") /\ new.sock = "closed"
                /\ res \in {"ok", "EEXIST"} <=> RetOk(new, "create_bridge")
                /\ res \notin {"ok", "EEXIST"} <=> RetErr(new, "create_bridge")
                /\ RetErr(new, "create_bridge") =>
                     /\ Done(new) /\ new.exit = 1
                     /\ new.out.msg = <<"Failed to create bridge", res>>
                /\ RetOk(new, "create_bridge") =>
                     new.pc = "ip_begin" /\ interface_exists(kern', rec.name)
                /\ interface_exists(kern, rec.name) => res = "EEXIST" /\ kern' = kern
                /\ res = "ok" =>
                     kern' = [kern EXCEPT !.ifs[rec.name] =
                                             [Absent EXCEPT !.kind = "bridge",
                                                            !.idx = kern.nextIdx,
                                                            !.flags = NewDevFlags],
                                          !.nextIdx = @ + 1]
                /\ res # "ok" => kern' = kern
    ]_vars

C16_Witness ==
    \E p \in Procs :
        /\ \E i \in 1..Len(proc[p].log) :
              proc[p].log[i].c = "SIOCBRADDBR" /\ proc[p].log[i].r = "EEXIST"
        /\ RetOk(proc[p], "create_bridge")
        /\ ~interface_exists(proc[p].k0, BR0)
        /\ kern.ifs[BR0].kind = "bridge"

\* C18 (as stated): with two create invocations running at once on the same
\* tap name, an invocation that fails at attach or bring-up never deletes a
\* tap that the other invocation created and reported as created: once an
\* invocation that created the tap has reported success, the tap is there,
\* whatever rollback the other one runs.
C18_Original ==
    \A p, q \in Procs :
        (/\ p # q
         /\ proc[p].cmd = "create" /\ proc[q].cmd = "create" /\ proc[p].name = proc[q].name
         /\ Done(proc[p]) /\ proc[p].exit = 0
         /\ \E i \in 1..Len(proc[p].log) :
               proc[p].log[i].c = "TUNSETIFF" /\ proc[p].log[i].r = "new"
         /\ HasCall(proc[q], "delete_interface")) =>
            interface_exists(kern, proc[p].name)

====
